---- MODULE Spec2Model ----
(***************************************************************************)
(* A model of the EDF decoder of src/edf.py: the EdfRecording streaming    *)
(* state machine (open, parse_binary, stream, to_json_object), the header  *)
(* and signal-metadata decoders and the record distribution.               *)
(*                                                                         *)
(* Representation.                                                         *)
(*  - A byte string is a sequence of byte values 0..255; a Python str      *)
(*    obtained with byte_array_to_string is the same sequence of codes.    *)
(*  - Python None is the empty tuple None and a present value x is the     *)
(*    one-element tuple Some(x), so that optional values compare safely.   *)
(*  - A number read from an ASCII field is held in thousandths (the value  *)
(*    1.5 is 1500).  The literals modelled are [sign] digits [. digits]    *)
(*    with at most three fraction digits; exponents, "inf" and "nan" are   *)
(*    not among the inputs of the model.                                   *)
(***************************************************************************)
EXTENDS Integers, Sequences, FiniteSets, TLC

VARIABLES
    binary_content,     \* EdfRecording.binary_content: None or Some(unread bytes)
    edf_file,           \* EdfRecording.edf_file: None or Some(unread bytes of the handle)
    status,             \* EdfRecording.status
    header,             \* EdfRecording.header: None or Some(header_dict)
    number_signals,     \* None or Some(int)
    number_records,     \* None or Some(int)
    signal_header_size, \* None or Some(int)
    samples_per_record, \* None or Some(int)
    record_size,        \* None or Some(int)
    signals,            \* sequence of Signal records
    pc,                 \* "idle", or "parse_binary" inside parse_binary's while loop
    last_op,            \* the operation that made the last step
    last_arg,           \* the duration argument of the last stream call, else None
    turn,               \* parity of the turns parse_binary's while loop has made
    raised,             \* the exception the last operation ended with, "" when none
    io,                 \* what the last operation did with the byte source (see NoIO)
    json                \* None, or Some(the value the last to_json_object returned)

vars == <<binary_content, edf_file, status, header, number_signals, number_records,
          signal_header_size, samples_per_record, record_size, signals,
          pc, last_op, last_arg, turn, raised, io, json>>

-----------------------------------------------------------------------------
(* Python values *)

None == <<>>
Some(x) == <<x>>
Get(o) == o[1]

Min(a, b) == IF a <= b THEN a ELSE b
Max(a, b) == IF a >= b THEN a ELSE b
Abs(a) == IF a >= 0 THEN a ELSE -a

\* The element of a one-element set.  A value computed by a call is named by
\* The({body : x \in {call}}): x then stands for the value, computed once.
The(S) == CHOOSE x \in S : TRUE

\* int(a / b) for b # 0: the quotient truncated toward zero.
TruncDiv(a, b) ==
    LET q == Abs(a) \div Abs(b)
    IN  IF (a >= 0) = (b >= 0) THEN q ELSE -q

\* s[lo:hi] of Python, lo and hi zero-based and possibly negative;
\* None as a bound is the open end.
PyIndex(i, n) == IF i < 0 THEN Max(i + n, 0) ELSE Min(i, n)
PySlice(s, lo, hi) ==
    LET n == Len(s)
        a == IF lo = None THEN 0 ELSE PyIndex(Get(lo), n)
        b == IF hi = None THEN n ELSE PyIndex(Get(hi), n)
    IN  IF a >= b THEN <<>> ELSE SubSeq(s, a + 1, b)

RECURSIVE Sum(_)
Sum(s) == IF s = <<>> THEN 0 ELSE Head(s) + Sum(Tail(s))

\* sum(widths[0..k-1])
RECURSIVE PrefixSum(_, _)
PrefixSum(s, k) == IF k = 0 THEN 0 ELSE s[k] + PrefixSum(s, k - 1)

-----------------------------------------------------------------------------
(* Module constants of edf.py *)

SIGNAL_HEADER_FIELDS ==
    <<"Label", "Transducer Type", "Physical dimension", "Physical minimum",
      "Physical maximum", "Digital minimum", "Digital maximum",
      "Prefiltering", "Samples", "Reserved">>
SIGNAL_HEADER_FIELDS_SIZE == <<16, 80, 8, 8, 8, 8, 8, 80, 8, 32>>
UNDEFINED == -32768

HEADER_FIELDS ==
    <<"version", "patient", "recordId", "startDate", "startTime", "headerSize",
      "reserved", "number_records", "recordDuration", "number_signals">>
HEADER_FIELDS_SIZES == <<8, 80, 80, 8, 8, 8, 44, 8, 8, 4>>
HEADER_SIZE == Sum(HEADER_FIELDS_SIZES)
NUM_FIELDS == {"headerSize", "number_records", "recordDuration", "number_signals"}

STAGE_OPEN == "open"
STAGE_HEADER == "header"
STAGE_METADATA == "metadata"
STAGE_PARSING == "parsing"
STAGE_DONE == "exhausted"
NO_STAGE == "None"
PARSER_STREAM_STAGES ==
    <<STAGE_OPEN, STAGE_HEADER, STAGE_METADATA, STAGE_PARSING, STAGE_DONE>>
DEFAULT_DURATION_IN_SECONDS == 1 * 3600

-----------------------------------------------------------------------------
(* Numeric literals: int(), float() and string_to_numerical *)

IsSpace(c) == c \in {9, 10, 11, 12, 13, 32}
IsDigit(c) == c \in 48..57

\* bytes.strip(): s between its first and its last non-blank byte.
Strip(s) ==
    LET kept == {i \in 1..Len(s) : ~IsSpace(s[i])}
    IN  IF kept = {} THEN <<>>
        ELSE SubSeq(s, CHOOSE i \in kept : \A j \in kept : i <= j,
                       CHOOSE i \in kept : \A j \in kept : i >= j)

AllDigits(s) == s # <<>> /\ \A i \in 1..Len(s) : IsDigit(s[i])

\* The value of the first n digits of s, and of all of them.
RECURSIVE DigitsUpTo(_, _)
DigitsUpTo(s, n) == IF n = 0 THEN 0 ELSE 10 * DigitsUpTo(s, n - 1) + (s[n] - 48)
DigitsValue(s) == DigitsUpTo(s, Len(s))

HasSign(t) == t # <<>> /\ t[1] \in {43, 45}
Unsigned(t) == IF HasSign(t) THEN Tail(t) ELSE t
SignOf(t) == IF t # <<>> /\ t[1] = 45 THEN -1 ELSE 1

\* int(s): None when s is no integer literal (ValueError), else Some(thousandths).
ParseInt(s) ==
    The({IF AllDigits(Unsigned(t))
         THEN Some(1000 * SignOf(t) * DigitsValue(Unsigned(t)))
         ELSE None : t \in {Strip(s)}})

\* The three fraction digits of f, as thousandths.
FractionValue(f) ==
    LET d(i) == IF i <= Len(f) THEN f[i] - 48 ELSE 0
    IN  100 * d(1) + 10 * d(2) + d(3)

\* float(s): None when s is no decimal literal (ValueError), else Some(thousandths).
ParseFloat(s) ==
    The({LET u == Unsigned(t)
             dots == {i \in 1..Len(u) : u[i] = 46}
         IN  IF dots = {}
             THEN IF AllDigits(u) THEN Some(1000 * SignOf(t) * DigitsValue(u)) ELSE None
             ELSE LET p == CHOOSE i \in dots : TRUE
                      ip == SubSeq(u, 1, p - 1)
                      fp == SubSeq(u, p + 1, Len(u))
                  IN  IF /\ Cardinality(dots) = 1
                         /\ ip = <<>> \/ AllDigits(ip)
                         /\ fp = <<>> \/ AllDigits(fp)
                         /\ ip # <<>> \/ fp # <<>>
                      THEN Some(SignOf(t) * (1000 * DigitsValue(ip) + FractionValue(fp)))
                      ELSE None : t \in {Strip(s)}})

string_to_numerical(s) ==
    The({IF i # None THEN Get(i)
         ELSE The({IF f # None THEN Get(f) ELSE 1000 * UNDEFINED : f \in {ParseFloat(s)}})
         : i \in {ParseInt(s)}})

\* int(x) of a number held in thousandths.
PyInt(m) == TruncDiv(m, 1000)

byte_array_to_string(bytesData) == bytesData

-----------------------------------------------------------------------------
(* struct.Struct(...).unpack *)

\* The chunks of buf under the descriptor "<w1>s <w2>s ...": None when buf has
\* not exactly the descriptor's size (struct.error).
Chunks(buf, sizes) ==
    [k \in 1..Len(sizes) |->
        SubSeq(buf, PrefixSum(sizes, k - 1) + 1, PrefixSum(sizes, k))]

UnpackStrings(buf, sizes) ==
    IF Len(buf) # Sum(sizes) THEN None ELSE Some(Chunks(buf, sizes))

\* One "h": two bytes, low byte first, as a signed 16-bit integer.
Int16(lo, hi) ==
    LET u == lo + 256 * hi
    IN  IF u >= 32768 THEN u - 65536 ELSE u

\* unpack of the descriptor "h " * n: None when buf has not exactly 2n bytes.
UnpackShorts(buf, n) ==
    IF Len(buf) # 2 * Max(n, 0) THEN None
    ELSE Some([k \in 1..Max(n, 0) |-> Int16(buf[2 * k - 1], buf[2 * k])])

\* The descriptor "<w>s " * n of __parse_metadata__: n fields of w bytes.
Repeat(w, n) == [k \in 1..Max(n, 0) |-> w]

-----------------------------------------------------------------------------
(* Scaler *)

\* Scaler.__init__ on four strings: float() of a string raises ValueError, which
\* the except TypeError clause does not catch.
ScalerInit(pmax, pmin, dmax, dmin) ==
    The({IF \E k \in 1..4 : f[k] = None
         THEN [raised |-> "ValueError", scaler |-> None]
         ELSE [raised |-> "",
               scaler |-> Some([p_min |-> Get(f[2]), d_min |-> Get(f[4]),
                                p_delta |-> Get(f[1]) - Get(f[2]),
                                d_delta |-> Get(f[3]) - Get(f[4])])]
         : f \in {<<ParseFloat(pmax), ParseFloat(pmin),
                    ParseFloat(dmax), ParseFloat(dmin)>>}})

-----------------------------------------------------------------------------
(* EdfHeader *)

EmptyDict == [k \in {} |-> None]

IndexIn(seq, x) == CHOOSE k \in 1..Len(seq) : seq[k] = x
Names(seq) == {seq[k] : k \in 1..Len(seq)}

\* EdfHeader(): header_dict = {}
EdfHeaderInit == [header_dict |-> EmptyDict]

\* EdfHeader.parse with the size check "len(header) < self.size".
EdfHeaderParseShortOnly(h, bytes) ==
    IF Len(bytes) < HEADER_SIZE
    THEN [raised |-> "Exception", header |-> h]
    ELSE The({[raised |-> "",
               header |-> [header_dict |->
                   [name \in Names(HEADER_FIELDS) |->
                       The({IF name \in NUM_FIELDS THEN string_to_numerical(v)
                            ELSE byte_array_to_string(v)
                            : v \in {field_values[IndexIn(HEADER_FIELDS, name)]}})]]]
              : field_values \in {Chunks(bytes, HEADER_FIELDS_SIZES)}})

\* EdfHeader.parse: the size check, the split into the ten fields and the
\* conversion of the numeric fields.
EdfHeaderParse(h, bytes) ==
    IF Len(bytes) # HEADER_SIZE
    THEN [raised |-> "Exception", header |-> h]
    ELSE The({[raised |-> "",
               header |-> [header_dict |->
                   [name \in Names(HEADER_FIELDS) |->
                       The({IF name \in NUM_FIELDS THEN string_to_numerical(v)
                            ELSE byte_array_to_string(v)
                            : v \in {field_values[IndexIn(HEADER_FIELDS, name)]}})]]]
              : field_values \in {Chunks(bytes, HEADER_FIELDS_SIZES)}})

\* EdfHeader.get
HeaderGet(h, name) ==
    IF name \in DOMAIN h.header_dict THEN Some(h.header_dict[name]) ELSE None

-----------------------------------------------------------------------------
(* Signal *)

SignalInit == [metadata |-> EmptyDict, samples |-> <<>>, scaler |-> None]

\* Signal.set_metadata: the field is stored first, then the Scaler is built
\* when all ten fields are present.
set_metadata(s, name, value) ==
    The({LET s1 == [s EXCEPT !.metadata = md]
         IN  IF Cardinality(DOMAIN md) = Len(SIGNAL_HEADER_FIELDS)
             THEN The({IF sc.raised # "" THEN [raised |-> sc.raised, signal |-> s1]
                       ELSE [raised |-> "", signal |-> [s1 EXCEPT !.scaler = sc.scaler]]
                       : sc \in {ScalerInit(md["Physical maximum"], md["Physical minimum"],
                                            md["Digital maximum"], md["Digital minimum"])}})
             ELSE [raised |-> "", signal |-> s1]
         : md \in {(name :> value) @@ s.metadata}})

\* Signal.number_samples_per_record: int(metadata.get('Samples', 0)); None when
\* the string is no integer literal (ValueError).
number_samples_per_record(s) ==
    IF "Samples" \in DOMAIN s.metadata
    THEN The({IF i = None THEN None ELSE Some(PyInt(Get(i)))
              : i \in {ParseInt(s.metadata["Samples"])}})
    ELSE Some(0)

\* Signal.number_records
SignalNumberRecords(s) == Len(s.samples)

\* Signal.total_number_of_samples
total_number_of_samples(s) ==
    The({IF c = None THEN None ELSE Some(Get(c) * SignalNumberRecords(s))
         : c \in {number_samples_per_record(s)}})

\* Signal.add_samples_for_one_record
add_samples_for_one_record(s, sample_data) ==
    [s EXCEPT !.samples = Append(@, sample_data)]

-----------------------------------------------------------------------------
(* EdfRecording: the decoder as a record d of its fields *)

\* What one operation did with the byte source: the number of __extract__
\* calls, the index of the first call of the record loop that returned no
\* byte (0 when none did), the number of records handed to
\* __parse_one_record__ and decoded, the number of bytes returned, and whether
\* an __extract__ call raised instead of returning.
NoIO == [extracts |-> 0, first_empty |-> 0, parsed |-> 0, bytes |-> 0, failed |-> FALSE]

\* Python truth of a bytes-or-None value.
Truthy(b) == b # None /\ Get(b) # <<>>

\* file.read(count): everything left when count is None or -1, ValueError
\* ("read length must be non-negative or -1") for any other negative count.
FileRead(f, count) ==
    IF count # None /\ Get(count) < -1
    THEN [raised |-> "ValueError", bytes |-> <<>>, rest |-> f]
    ELSE LET n == IF count = None \/ Get(count) = -1 THEN Len(f)
                  ELSE Min(Get(count), Len(f))
         IN  [raised |-> "", bytes |-> SubSeq(f, 1, n), rest |-> SubSeq(f, n + 1, Len(f))]

\* __extract__ handing over the whole buffer at once, whatever count is.
extract_whole_buffer(d, count) ==
    IF Truthy(d.binary_content)
    THEN [raised |-> "", bytes |-> Get(d.binary_content),
          d |-> [d EXCEPT !.binary_content = Some(<<>>)]]
    ELSE IF d.edf_file # None
    THEN LET r == FileRead(Get(d.edf_file), count)
         IN  [raised |-> r.raised, bytes |-> r.bytes,
              d |-> [d EXCEPT !.edf_file = Some(r.rest)]]
    ELSE [raised |-> "", bytes |-> <<>>, d |-> d]

\* EdfRecording.__extract__
extract(d, count) ==
    IF Truthy(d.binary_content)
    THEN [raised |-> "", bytes |-> PySlice(Get(d.binary_content), None, count),
          d |-> [d EXCEPT !.binary_content = Some(PySlice(Get(@), count, None))]]
    ELSE IF d.edf_file # None
    THEN LET r == FileRead(Get(d.edf_file), count)
         IN  [raised |-> r.raised, bytes |-> r.bytes,
              d |-> [d EXCEPT !.edf_file = Some(r.rest)]]
    ELSE [raised |-> "", bytes |-> <<>>, d |-> d]

\* SetColumn with every signal given the first chunk of the column.
RECURSIVE SetColumnFirstChunk(_, _, _, _)
SetColumnFirstChunk(sigs, name, metadata, k) ==
    IF k > Min(Len(sigs), Len(metadata)) THEN [raised |-> "", signals |-> sigs]
    ELSE The({IF r.raised # "" THEN r
              ELSE SetColumnFirstChunk(r.signals, name, metadata, k + 1)
              : r \in {The({[raised |-> m.raised,
                              signals |-> [sigs EXCEPT ![k] = m.signal]]
                             : m \in {set_metadata(sigs[k], name,
                                           byte_array_to_string(metadata[1]))}})}})

\* The loop "for s, m in zip(self.signals, metadata): s.set_metadata(l, m)",
\* from signal k on; it stops at the first set_metadata that raises.
RECURSIVE SetColumn(_, _, _, _)
SetColumn(sigs, name, metadata, k) ==
    IF k > Min(Len(sigs), Len(metadata)) THEN [raised |-> "", signals |-> sigs]
    ELSE The({IF r.raised # "" THEN r
              ELSE SetColumn(r.signals, name, metadata, k + 1)
              : r \in {The({[raised |-> m.raised,
                              signals |-> [sigs EXCEPT ![k] = m.signal]]
                             : m \in {set_metadata(sigs[k], name,
                                           byte_array_to_string(metadata[k]))}})}})

\* "end = start + field_size * self.number_signals"
FieldEnd(start, field_size, n) == start + field_size * n

\* The loop over SIGNAL_HEADER_FIELDS of __parse_metadata__, from field i on
\* (1-based), start being the end of the field before.
RECURSIVE MetadataFields(_, _, _, _, _)
MetadataFields(sigs, n, header_bytes, i, start) ==
    IF i > Len(SIGNAL_HEADER_FIELDS) THEN [raised |-> "", signals |-> sigs]
    ELSE LET field_size == SIGNAL_HEADER_FIELDS_SIZE[i]
             end == FieldEnd(start, field_size, n)
             piece == PySlice(header_bytes, Some(start), Some(end))
         IN  The({IF metadata_as_bytes = None
                  THEN [raised |-> "struct.error", signals |-> sigs]
                  ELSE The({IF c.raised # "" THEN c
                            ELSE MetadataFields(c.signals, n, header_bytes, i + 1, end)
                            : c \in {SetColumn(sigs, SIGNAL_HEADER_FIELDS[i],
                                               Get(metadata_as_bytes), 1)}})
                  : metadata_as_bytes \in {UnpackStrings(piece, Repeat(field_size, n))}})

\* EdfRecording.__parse_metadata__
parse_metadata(d, header_bytes) ==
    IF d.number_signals = None
    THEN [raised |-> "TypeError", d |-> d]
    ELSE The({LET d1 == [d EXCEPT !.signals = m.signals]
              IN  IF m.raised # "" THEN [raised |-> m.raised, d |-> d1]
                  ELSE The({IF \E k \in 1..Len(counts) : counts[k] = None
                            THEN [raised |-> "ValueError", d |-> d1]
                            ELSE The({[raised |-> "",
                                       d |-> [d1 EXCEPT
                                                 !.samples_per_record = Some(total),
                                                 !.record_size = Some(2 * total)]]
                                      : total \in {Sum([k \in 1..Len(counts) |->
                                                           Get(counts[k])])}})
                            : counts \in {[k \in 1..Len(m.signals) |->
                                number_samples_per_record(m.signals[k])]}})
              : m \in {MetadataFields(d.signals, Get(d.number_signals),
                                      header_bytes, 1, 0)}})

\* Distribute with start never advanced: every signal is served from index 0.
RECURSIVE DistributeOverlapping(_, _, _, _)
DistributeOverlapping(sigs, data, k, start) ==
    IF k > Len(sigs) THEN [raised |-> "", signals |-> sigs]
    ELSE The({IF c = None THEN [raised |-> "ValueError", signals |-> sigs]
              ELSE The({DistributeOverlapping(sigs1, data, k + 1, start)
                        : sigs1 \in {[sigs EXCEPT ![k] = add_samples_for_one_record(
                              @, PySlice(data, Some(start), Some(start + Get(c))))]}})
              : c \in {number_samples_per_record(sigs[k])}})

\* The loop over self.signals of __parse_one_record__, from signal k on, with
\* start the zero-based index of the first integer not yet handed out.
RECURSIVE Distribute(_, _, _, _)
Distribute(sigs, data, k, start) ==
    IF k > Len(sigs) THEN [raised |-> "", signals |-> sigs]
    ELSE The({IF c = None THEN [raised |-> "ValueError", signals |-> sigs]
              ELSE The({The({Distribute(sigs1, data, k + 1, end)
                             : sigs1 \in {[sigs EXCEPT ![k] = add_samples_for_one_record(
                                   @, PySlice(data, Some(start), Some(end)))]}})
                        : end \in {start + Get(c)}})
              : c \in {number_samples_per_record(sigs[k])}})

\* EdfRecording.__parse_one_record__
parse_one_record(d, sample) ==
    IF sample = <<>> THEN [raised |-> "", d |-> d]
    ELSE IF d.samples_per_record = None THEN [raised |-> "TypeError", d |-> d]
    ELSE The({IF data = None THEN [raised |-> "struct.error", d |-> d]
              ELSE The({The({[raised |-> r.raised, d |-> [d EXCEPT !.signals = r.signals]]
                             : r \in {Distribute(d.signals, values, 1, 0)}})
                        : values \in {Get(data)}})
              : data \in {UnpackShorts(sample, Get(d.samples_per_record))}})

\* RecordStep with the stage left alone when a read returns no byte.
RecordStepStaysParsing(ls) ==
    IF ls.raised # "" \/ ls.fixed THEN ls
    ELSE The({LET io1 == [ls.io EXCEPT !.extracts = @ + 1, !.bytes = @ + Len(e.bytes)]
              IN  IF e.raised # ""
                  THEN [raised |-> e.raised, d |-> e.d, fixed |-> FALSE,
                        io |-> [io1 EXCEPT !.failed = TRUE]]
                  ELSE IF Len(e.bytes) > 0
                  THEN The({[raised |-> p.raised, d |-> p.d, fixed |-> FALSE,
                             io |-> IF p.raised # "" THEN io1
                                    ELSE [io1 EXCEPT !.parsed = @ + 1]]
                            : p \in {parse_one_record(e.d, e.bytes)}})
                  ELSE [raised |-> "", d |-> e.d, fixed |-> (e.d = ls.d),
                        io |-> [io1 EXCEPT !.first_empty =
                                               IF @ = 0 THEN io1.extracts ELSE @]]
              : e \in {extract(ls.d, ls.d.record_size)}})

\* One iteration of the record loop of stream, on the loop state
\* ls = [raised, d, io, fixed].  An iteration is a function of d alone, so an
\* iteration that leaves d as it found it (the source is exhausted and the
\* stage is already Done) is repeated unchanged by all that follow: fixed
\* records that.  An iteration after an exception does not happen.
RecordStep(ls) ==
    IF ls.raised # "" \/ ls.fixed THEN ls
    ELSE The({LET io1 == [ls.io EXCEPT !.extracts = @ + 1, !.bytes = @ + Len(e.bytes)]
              IN  IF e.raised # ""
                  THEN [raised |-> e.raised, d |-> e.d, fixed |-> FALSE,
                        io |-> [io1 EXCEPT !.failed = TRUE]]
                  ELSE IF Len(e.bytes) > 0
                  THEN The({[raised |-> p.raised, d |-> p.d, fixed |-> FALSE,
                             io |-> IF p.raised # "" THEN io1
                                    ELSE [io1 EXCEPT !.parsed = @ + 1]]
                            : p \in {parse_one_record(e.d, e.bytes)}})
                  ELSE LET d1 == [e.d EXCEPT !.status = STAGE_DONE]
                       IN  [raised |-> "", d |-> d1, fixed |-> (d1 = ls.d),
                            io |-> [io1 EXCEPT !.first_empty =
                                                   IF @ = 0 THEN io1.extracts ELSE @]]
              : e \in {extract(ls.d, ls.d.record_size)}})

\* n iterations of the record loop from ls, composed by halves so that the
\* evaluation stays shallow; the iterations that follow a fixed one are only
\* counted (each is one more __extract__ call that returns nothing).
RECURSIVE RecordLoop(_, _)
RecordLoop(ls, n) ==
    IF n <= 0 THEN ls
    ELSE IF n = 1 THEN RecordStep(ls)
    ELSE The({IF half.raised # "" THEN half
              ELSE IF half.fixed
              THEN [half EXCEPT !.io.extracts = @ + (n - (n \div 2))]
              ELSE RecordLoop(half, n - (n \div 2))
              : half \in {RecordLoop(ls, n \div 2)}})

\* records_to_read without the math.isclose(recordDuration, 0) case.
records_to_read_zero_unchecked(d, duration) ==
    LET rd == HeaderGet(Get(d.header), "recordDuration")
    IN  IF rd = None \/ d.record_size = None THEN None
        ELSE IF duration = None \/ duration = Some(0) \/ Get(rd) = 0 THEN d.record_size
        ELSE Some(TruncDiv(1000 * Get(duration), Get(rd)))

\* records_to_read of stream: None when math.isclose raises TypeError on a
\* missing recordDuration.  duration is None or Some(seconds); "not duration"
\* holds of None and of 0.
records_to_read(d, duration) ==
    LET rd == HeaderGet(Get(d.header), "recordDuration")
    IN  IF rd = None \/ d.record_size = None THEN None
        ELSE IF Get(rd) = 0 THEN Some(1)
        ELSE IF duration = None \/ duration = Some(0) THEN d.record_size
        ELSE Some(TruncDiv(1000 * Get(duration), Get(rd)))

\* The STAGE_OPEN branch of stream.
stream_open(d) ==
    The({The({
        LET io1 == [NoIO EXCEPT !.extracts = 1, !.bytes = Len(e.bytes)]
            ns == PyInt(Get(HeaderGet(p.header, "number_signals")))
            nr == PyInt(Get(HeaderGet(p.header, "number_records")))
        IN  IF p.raised # "" THEN [raised |-> p.raised, d |-> e.d, io |-> io1]
            ELSE [raised |-> "", io |-> io1,
                  d |-> [e.d EXCEPT !.header = Some(p.header),
                                    !.number_signals = Some(ns),
                                    !.number_records = Some(nr),
                                    !.signal_header_size =
                                        Some(ns * Sum(SIGNAL_HEADER_FIELDS_SIZE)),
                                    !.samples_per_record = Some(0),
                                    !.record_size = Some(0),
                                    !.signals = [k \in 1..Max(ns, 0) |-> SignalInit]]]
        : p \in {EdfHeaderParse(EdfHeaderInit, e.bytes)}})
        : e \in {extract([d EXCEPT !.header = Some(EdfHeaderInit),
                                   !.status = STAGE_HEADER], Some(HEADER_SIZE))}})

\* The STAGE_HEADER branch of stream.
stream_header(d) ==
    The({IF e.raised # ""
         THEN [raised |-> e.raised, d |-> e.d,
               io |-> [NoIO EXCEPT !.extracts = 1, !.failed = TRUE]]
         ELSE The({[raised |-> p.raised, d |-> p.d,
                    io |-> [NoIO EXCEPT !.extracts = 1, !.bytes = Len(e.bytes)]]
                   : p \in {parse_metadata(e.d, e.bytes)}})
         : e \in {extract([d EXCEPT !.status = STAGE_METADATA], d.signal_header_size)}})

\* The STAGE_METADATA / STAGE_PARSING branch of stream.
stream_records(d, duration) ==
    The({The({IF n = None THEN [raised |-> "TypeError", d |-> d1, io |-> NoIO]
              ELSE The({[raised |-> r.raised, d |-> r.d, io |-> r.io]
                        : r \in {The({RecordLoop(ls, Get(n))
                                       : ls \in {[raised |-> "", d |-> d1, io |-> NoIO,
                                                   fixed |-> FALSE]}})}})
              : n \in {records_to_read(d1, duration)}})
         : d1 \in {[d EXCEPT !.status = STAGE_PARSING]}})

\* stream with STAGE_DONE starting over at STAGE_OPEN.
stream_wraps_around(d, duration) ==
    IF d.status = STAGE_OPEN THEN stream_open(d)
    ELSE IF d.status = STAGE_HEADER THEN stream_header(d)
    ELSE IF d.status \in {STAGE_METADATA, STAGE_PARSING} THEN stream_records(d, duration)
    ELSE IF d.status = STAGE_DONE
    THEN [raised |-> "", d |-> [d EXCEPT !.status = STAGE_OPEN], io |-> NoIO]
    ELSE [raised |-> "", d |-> d, io |-> NoIO]

\* stream with STAGE_DONE handled by the record branch.
stream_reads_at_done(d, duration) ==
    IF d.status = STAGE_OPEN THEN stream_open(d)
    ELSE IF d.status = STAGE_HEADER THEN stream_header(d)
    ELSE IF d.status \in {STAGE_METADATA, STAGE_PARSING, STAGE_DONE}
    THEN stream_records(d, duration)
    ELSE [raised |-> "", d |-> d, io |-> NoIO]

\* EdfRecording.stream
stream(d, duration) ==
    IF d.status = STAGE_OPEN THEN stream_open(d)
    ELSE IF d.status = STAGE_HEADER THEN stream_header(d)
    ELSE IF d.status \in {STAGE_METADATA, STAGE_PARSING} THEN stream_records(d, duration)
    ELSE [raised |-> "", d |-> d, io |-> NoIO]

\* EdfRecording.is_done
is_done(d) == d.status = STAGE_DONE

-----------------------------------------------------------------------------
(* Export: format_samples and to_json_object *)

\* The values of an exported record: a Python int, a float held in thousandths
\* and a str held as its character codes.
PyIntValue(n) == [kind |-> "int", v |-> <<n>>]
PyFloatValue(m) == [kind |-> "float", v |-> <<m>>]
PyStrValue(codes) == [kind |-> "str", v |-> codes]

RECURSIVE GCD(_, _)
GCD(a, b) == IF b = 0 THEN a ELSE The({GCD(b, r) : r \in {a % b}})

\* The quotient and the remainder of A * M by d, for A, M >= 0 and d > 0,
\* computed in steps whose products stay small.
MulDiv(A, M, d) ==
    LET qm == M \div d
        rm == M % d
        hi == (A \div 1000) * rm
        lo == (A % 1000) * rm
        mid == 1000 * (hi % d)
        rest == (mid % d) + (lo % d)
    IN  [q |-> A * qm + 1000 * (hi \div d) + (mid \div d) + (lo \div d) + (rest \div d),
         r |-> rest % d]

Sign(a) == IF a < 0 THEN -1 ELSE 1

\* ScaledValue without the offset p_min.
ScaledValueNoOffset(sc, dvalue) ==
    LET N == 1000 * dvalue - sc.d_min
        sgn == Sign(N) * Sign(sc.d_delta) * Sign(sc.p_delta)
    IN  The({The({LET towards == sgn * m.q
                      away == sgn * (m.q + 1)
                      d == Abs(sc.d_delta) \div g
                  IN  IF 2 * m.r < d THEN towards
                      ELSE IF 2 * m.r > d THEN away
                      ELSE IF towards % 2 = 0 THEN towards ELSE away
                  : m \in {MulDiv(Abs(sc.p_delta), Abs(N) \div g,
                                  Abs(sc.d_delta) \div g)}})
             : g \in {GCD(Abs(sc.d_delta), Abs(N))}})

\* '%.3f' of p_delta * (dvalue - d_min) / d_delta + p_min, in thousandths: the
\* exact value rounded to the nearest thousandth, a tie to the even one.
ScaledValue(sc, dvalue) ==
    LET N == 1000 * dvalue - sc.d_min
        sgn == Sign(N) * Sign(sc.d_delta) * Sign(sc.p_delta)
    IN  The({The({LET towards == sc.p_min + sgn * m.q
                      away == sc.p_min + sgn * (m.q + 1)
                      d == Abs(sc.d_delta) \div g
                  IN  IF 2 * m.r < d THEN towards
                      ELSE IF 2 * m.r > d THEN away
                      ELSE IF towards % 2 = 0 THEN towards ELSE away
                  : m \in {MulDiv(Abs(sc.p_delta), Abs(N) \div g,
                                  Abs(sc.d_delta) \div g)}})
             : g \in {GCD(Abs(sc.d_delta), Abs(N))}})

\* Scaler.scale without the test of d_delta: the division by a zero d_delta
\* raises ZeroDivisionError.
scale_unguarded(sc, x) ==
    IF x.kind = "str" THEN [raised |-> "TypeError", value |-> x]
    ELSE IF sc.d_delta = 0 THEN [raised |-> "ZeroDivisionError", value |-> x]
    ELSE [raised |-> "", value |-> PyFloatValue(ScaledValue(sc, x.v[1]))]

\* Scaler.scale on an exported value x: a str operand makes the subtraction
\* raise TypeError.
scale(sc, x) ==
    IF sc.d_delta > 0 \/ sc.d_delta < 0
    THEN IF x.kind = "str" THEN [raised |-> "TypeError", value |-> x]
         ELSE [raised |-> "", value |-> PyFloatValue(ScaledValue(sc, x.v[1]))]
    ELSE [raised |-> "", value |-> x]

\* hex(n) for n >= 0: "0x" and the hexadecimal digits, in lower case.
HexDigit(n) == IF n < 10 THEN 48 + n ELSE 87 + n
RECURSIVE HexDigits(_)
HexDigits(n) ==
    IF n < 16 THEN <<HexDigit(n)>> ELSE HexDigits(n \div 16) \o <<HexDigit(n % 16)>>
numerical_to_hex_string(val, nbits) ==
    <<48, 120>> \o HexDigits((val + 2 ^ nbits) % (2 ^ nbits))

\* str.strip() is empty: every character is white space.
IsStrSpace(c) == c \in {9, 10, 11, 12, 13, 28, 29, 30, 31, 32, 133, 160}
Blank(str) == \A i \in 1..Len(str) : IsStrSpace(str[i])

\* Signal.is_numerical: None when a metadata key is missing (KeyError).
is_numerical(s) ==
    IF "Transducer Type" \notin DOMAIN s.metadata THEN None
    ELSE IF ~Blank(s.metadata["Transducer Type"]) THEN Some(TRUE)
    ELSE IF "Physical dimension" \notin DOMAIN s.metadata THEN None
    ELSE Some(~Blank(s.metadata["Physical dimension"]))

\* The first exception of a sequence of results, "" when there is none.
FirstRaised(rs) ==
    IF \A k \in 1..Len(rs) : rs[k].raised = "" THEN ""
    ELSE rs[CHOOSE k \in 1..Len(rs) :
                /\ rs[k].raised # ""
                /\ \A j \in 1..(k - 1) : rs[j].raised = ""].raised
Values(rs) == [k \in 1..Len(rs) |-> rs[k].value]

\* One turn of the loop of format_samples, on the record rec.
FormatRecord(s, rec, doScale, char_for_undefined) ==
    LET marked == [j \in 1..Len(rec) |->
                      IF Truthy(char_for_undefined) /\ rec[j] = UNDEFINED
                      THEN PyStrValue(Get(char_for_undefined)) ELSE PyIntValue(rec[j])]
    IN  The({IF numerical = None THEN [raised |-> "KeyError", value |-> <<>>]
             ELSE IF ~Get(numerical)
             THEN The({[raised |-> FirstRaised(rs), value |-> Values(rs)]
                       : rs \in {[j \in 1..Len(rec) |->
                             IF marked[j].kind = "str"
                             THEN [raised |-> "TypeError", value |-> marked[j]]
                             ELSE [raised |-> "",
                                   value |-> PyStrValue(numerical_to_hex_string(
                                                     marked[j].v[1], 16))]]}})
             ELSE IF doScale
             THEN IF s.scaler = None THEN [raised |-> "AttributeError", value |-> <<>>]
                  ELSE The({[raised |-> FirstRaised(rs), value |-> Values(rs)]
                            : rs \in {[j \in 1..Len(rec) |->
                                          scale(Get(s.scaler), marked[j])]}})
             ELSE [raised |-> "", value |-> marked]
             : numerical \in {is_numerical(s)}})

\* Signal.format_samples
format_samples(s, doScale, char_for_undefined) ==
    IF ~doScale /\ ~Truthy(char_for_undefined)
    THEN [raised |-> "",
          value |-> [r \in 1..Len(s.samples) |->
                        [j \in 1..Len(s.samples[r]) |-> PyIntValue(s.samples[r][j])]]]
    ELSE The({[raised |-> FirstRaised(rs),
               value |-> IF FirstRaised(rs) = "" THEN Values(rs) ELSE <<>>]
              : rs \in {[r \in 1..Len(s.samples) |->
                            FormatRecord(s, s.samples[r], doScale, char_for_undefined)]}})

\* Signal.to_json_object; options is a set of keys.
SignalToJsonObject(s, options) ==
    The({IF "values" \in options /\ f.raised # ""
         THEN [raised |-> f.raised, value |-> None]
         ELSE [raised |-> "",
               value |-> Some([metadata |-> IF "metadata" \in options
                                           THEN Some(s.metadata) ELSE None,
                               values |-> IF "values" \in options
                                         THEN Some(f.value) ELSE None])]
         : f \in {IF "values" \in options THEN format_samples(s, TRUE, None)
                  ELSE [raised |-> "", value |-> <<>>]}})

\* EdfHeader.to_json_object
FIELD_DESCRIPTIONS ==
    <<"Version Format", "Local Patient Info", "Local Recording Info",
      "Recording Start Date", "Recording Start Time", "Recording Header Bytes",
      "Reserved", "Num Data Records", "Recording Duration (s)", "Num Signals">>
HeaderToJsonObject(h) ==
    [total_header_size |-> HEADER_SIZE,
     fields |-> [name \in Names(HEADER_FIELDS) |->
                    [field_description |-> FIELD_DESCRIPTIONS[IndexIn(HEADER_FIELDS, name)],
                     field_size |-> HEADER_FIELDS_SIZES[IndexIn(HEADER_FIELDS, name)],
                     value |-> HeaderGet(h, name)]]]

\* The export options: header tells whether the key 'header' is present,
\* slicing_by_index is None (absent) or Some of -1 (all) or of a list of
\* zero-based indices, signal is None (absent) or Some(set of keys).
AllIndices == [all |-> TRUE, indices |-> {}]
Indices(S) == [all |-> FALSE, indices |-> S]
DEFAULT_EXPORT_OPTIONS ==
    [header |-> TRUE, slicing_by_index |-> Some(Indices({0})),
     signal |-> Some({"metadata", "values"})]

\* EdfRecording.to_json_object
to_json_object(d, options) ==
    IF options.header /\ d.header = None
    THEN [raised |-> "AttributeError", value |-> None]
    ELSE LET head == IF options.header
                     THEN Some([header |-> HeaderToJsonObject(Get(d.header)),
                                number_signals |-> d.number_signals,
                                number_records |-> d.number_records,
                                signal_header_size |-> d.signal_header_size,
                                samples_per_record |-> d.samples_per_record,
                                record_size |-> d.record_size])
                     ELSE None
         IN  IF options.slicing_by_index # None /\ options.signal # None
             THEN LET wanted == {i \in 1..Len(d.signals) :
                                    \/ Get(options.slicing_by_index).all
                                    \/ (i - 1) \in Get(options.slicing_by_index).indices}
                  IN  The({IF \E i \in wanted : rs[i].raised # ""
                           THEN [raised |-> rs[CHOOSE i \in wanted :
                                                  /\ rs[i].raised # ""
                                                  /\ \A j \in wanted :
                                                         j < i => rs[j].raised = ""].raised,
                                 value |-> None]
                           ELSE [raised |-> "",
                                 value |-> Some([header |-> head,
                                                 signals |-> Some([i \in wanted |->
                                                                     Get(rs[i].value)])])]
                           : rs \in {[i \in wanted |-> SignalToJsonObject(
                                         d.signals[i], Get(options.signal))]}})
             ELSE [raised |-> "", value |-> Some([header |-> head, signals |-> None])]

-----------------------------------------------------------------------------
(* Inputs: EDF byte sources, built field by field in the layout the decoder reads *)

\* Records held by a complete file of the model.
MaxRecs == 2
\* The longest duration, in seconds, of the user's stream calls.
MaxDuration == 3

RECURSIVE Dec(_)
Dec(n) == IF n < 10 THEN <<48 + n>> ELSE Dec(n \div 10) \o <<48 + (n % 10)>>

\* bytes.ljust(w): s padded with spaces to w bytes.
Pad(s, w) == s \o [k \in 1..(w - Len(s)) |-> 32]
\* w letters that differ from place to place and from seed to seed.
Text(seed, w) == [k \in 1..w |-> 65 + ((7 * seed + k) % 26)]

\* The 256-byte header with the given number_records, recordDuration and
\* number_signals fields.
HeaderBytes(nrec, rd, nsig) ==
    Pad(<<48>>, 8) \o Text(1, 80) \o Text(2, 80) \o Text(3, 8) \o Text(4, 8)
        \o Pad(Dec(HEADER_SIZE), 8) \o Pad(<<>>, 44)
        \o Pad(nrec, 8) \o Pad(rd, 8) \o Pad(nsig, 4)

\* The ten metadata fields of one channel, in the order of SIGNAL_HEADER_FIELDS.
\* "-100", "100", "-32768", "32767" are the bounds of the scaler test.
Channel(seed, numerical, pmin, samples) ==
    <<Text(seed, 5),
      IF numerical THEN Text(seed + 1, 9) ELSE <<>>,
      IF numerical THEN Text(seed + 2, 2) ELSE <<>>,
      pmin, <<49, 48, 48>>, <<45, 51, 50, 55, 54, 56>>, <<51, 50, 55, 54, 55>>,
      Text(seed + 3, 12), samples, Text(seed + 4, 3)>>

\* The signal-metadata block of the channels chans: field after field, and
\* within a field channel after channel.
RECURSIVE Column(_, _, _)
Column(chans, i, k) ==
    IF k > Len(chans) THEN <<>>
    ELSE Pad(chans[k][i], SIGNAL_HEADER_FIELDS_SIZE[i]) \o Column(chans, i, k + 1)
RECURSIVE MetadataBytes(_, _)
MetadataBytes(chans, i) ==
    IF i > Len(SIGNAL_HEADER_FIELDS) THEN <<>>
    ELSE Column(chans, i, 1) \o MetadataBytes(chans, i + 1)

\* The j-th integer of record r, and a record block of n integers, each as two
\* bytes, low byte first.  Record 2 holds negative values and UNDEFINED.
SampleValue(r, j) ==
    IF r % 2 = 1 THEN 100 * r + j
    ELSE IF j = 1 THEN UNDEFINED ELSE -(100 * r + j)
ShortBytes(v) == <<(v % 65536) % 256, (v % 65536) \div 256>>
RECURSIVE RecordBytes(_, _, _)
RecordBytes(r, j, n) ==
    IF j > n THEN <<>> ELSE ShortBytes(SampleValue(r, j)) \o RecordBytes(r, j + 1, n)
RECURSIVE RecordsBytes(_, _, _)
RecordsBytes(r, count, n) ==
    IF r > count THEN <<>> ELSE RecordBytes(r, 1, n) \o RecordsBytes(r + 1, count, n)

EdfBytes(rd, nsig, chans, n) ==
    HeaderBytes(Dec(MaxRecs), rd, nsig) \o MetadataBytes(chans, 1)
        \o RecordsBytes(1, MaxRecs, n)

ChanA == Channel(10, TRUE, <<45, 49, 48, 48>>, <<50>>)
ChanB == Channel(20, TRUE, <<45, 49, 48, 48>>, <<49>>)
ChanAnnotation == Channel(30, FALSE, <<45, 49, 48, 48>>, <<49>>)
ChanBadSamples == Channel(40, TRUE, <<45, 49, 48, 48>>, <<120>>)
ChanBadMinimum == Channel(50, TRUE, <<122, 122>>, <<49>>)

\* One channel of 2 samples, recordDuration "1".
FileOne == EdfBytes(<<49>>, <<49>>, <<ChanA>>, 2)
\* Two channels of 2 and 1 samples, recordDuration "1.5".
FileTwo == EdfBytes(<<49, 46, 53>>, <<50>>, <<ChanA, ChanB>>, 3)
\* recordDuration "0", the second channel an annotation channel.
FileZeroDuration == EdfBytes(<<48>>, <<50>>, <<ChanA, ChanAnnotation>>, 3)
\* recordDuration "abc": no number.
FileBadDuration == EdfBytes(<<97, 98, 99>>, <<49>>, <<ChanA>>, 2)
\* number_signals "abc": no number.
FileBadSignals == EdfBytes(<<49>>, <<97, 98, 99>>, <<ChanA>>, 2)
\* Samples "x" and Physical minimum "zz": no numbers.
FileBadSamples == EdfBytes(<<49>>, <<49>>, <<ChanBadSamples>>, 2)
FileBadMinimum == EdfBytes(<<49>>, <<50>>, <<ChanA, ChanBadMinimum>>, 3)
\* recordDuration "7200": one record is longer than the window of parse_binary.
FileLongRecords == EdfBytes(<<55, 50, 48, 48>>, <<49>>, <<ChanA>>, 2)
\* Sources that end inside the header, inside the signal-metadata block and
\* inside the last record block.
FileShortHeader == SubSeq(FileOne, 1, 100)
FileShortMetadata == SubSeq(FileTwo, 1, HEADER_SIZE + 300)
FileShortRecord == SubSeq(FileOne, 1, Len(FileOne) - 1)
\* The record blocks of FileOne alone, with no header before them.
FileRecordsOnly == RecordsBytes(1, MaxRecs, 2)

Files == {FileOne, FileTwo, FileZeroDuration, FileBadDuration, FileBadSignals,
          FileBadSamples, FileBadMinimum, FileLongRecords, FileShortHeader,
          FileShortMetadata, FileShortRecord, FileRecordsOnly}

\* The sources given to a decoder that already holds a source of the other
\* kind (a buffer given to a decoder with a file handle, and the reverse).
MixedSources == {FileShortHeader, FileRecordsOnly}

\* stream is called with no duration, with 0, 1 and MaxDuration seconds, and
\* with the window of parse_binary.
Durations ==
    {None, Some(0), Some(1), Some(MaxDuration), Some(DEFAULT_DURATION_IN_SECONDS)}

\* to_json_object is called with its default options, and for the values of
\* all signals alone.
ExportOptions ==
    {DEFAULT_EXPORT_OPTIONS,
     [header |-> FALSE, slicing_by_index |-> Some(AllIndices), signal |-> Some({"values"})]}

\* format_samples is called without a marker and with the marker "?".
Markers == {None, Some(<<63>>)}

\* The slices handed to EdfHeader.parse on its own: shorter than the header,
\* one byte short, exact, one byte long, and a whole file.
HeaderSlices ==
    {SubSeq(FileOne, 1, 100), SubSeq(FileOne, 1, HEADER_SIZE - 1),
     SubSeq(FileOne, 1, HEADER_SIZE), SubSeq(FileOne, 1, HEADER_SIZE + 1), FileOne}

\* The bounds given to a Scaler: the strings of the scaler test ("100.00  ",
\* "100.00 ", "-100.00 ", "32767   ", "32767  ", "-32768  ") and "zz", which
\* is no number; and the digital values scaled: the two digital bounds and the
\* test's 550.
PhysicalMaxima == {<<49, 48, 48, 46, 48, 48, 32, 32>>, <<122, 122>>}
PhysicalMinima == {<<49, 48, 48, 46, 48, 48, 32>>, <<45, 49, 48, 48, 46, 48, 48, 32>>}
DigitalMaxima ==
    {<<51, 50, 55, 54, 55, 32, 32, 32>>, <<45, 51, 50, 55, 54, 56, 32, 32>>, <<122, 122>>}
DigitalMinima ==
    {<<51, 50, 55, 54, 55, 32, 32>>, <<45, 51, 50, 55, 54, 56, 32, 32>>, <<122, 122>>}
DigitalValues == {-32768, 550, 32767}

\* The sources of a decoder used beside the calls made on a header alone.
UnitFiles == {FileOne, FileShortHeader}

-----------------------------------------------------------------------------
(* The state machine *)

\* The decoder's fields as one record, and the step that stores a record back.
Self ==
    [binary_content |-> binary_content, edf_file |-> edf_file, status |-> status,
     header |-> header, number_signals |-> number_signals,
     number_records |-> number_records, signal_header_size |-> signal_header_size,
     samples_per_record |-> samples_per_record, record_size |-> record_size,
     signals |-> signals]

Store(d) ==
    /\ binary_content' = d.binary_content
    /\ edf_file' = d.edf_file
    /\ status' = d.status
    /\ header' = d.header
    /\ number_signals' = d.number_signals
    /\ number_records' = d.number_records
    /\ signal_header_size' = d.signal_header_size
    /\ samples_per_record' = d.samples_per_record
    /\ record_size' = d.record_size
    /\ signals' = d.signals

\* EdfRecording.__init__
Init ==
    /\ binary_content = None
    /\ edf_file = None
    /\ status = NO_STAGE
    /\ header = None
    /\ number_signals = None
    /\ number_records = None
    /\ signal_header_size = None
    /\ samples_per_record = None
    /\ record_size = None
    /\ signals = <<>>
    /\ pc = "idle"
    /\ last_op = "init"
    /\ last_arg = None
    /\ turn = 0
    /\ raised = ""
    /\ io = NoIO
    /\ json = None

\* EdfRecording.open(file_name), the file holding the bytes f.
Open(f) ==
    /\ pc = "idle"
    /\ binary_content = None \/ f \in MixedSources
    /\ Store([Self EXCEPT !.edf_file = Some(f), !.status = STAGE_OPEN])
    /\ pc' = "idle"
    /\ last_op' = "open"
    /\ last_arg' = None
    /\ turn' = 0
    /\ raised' = ""
    /\ io' = NoIO
    /\ json' = None

\* EdfRecording.stream(duration), called by the user.
Stream(duration) ==
    /\ pc = "idle"
    /\ \E r \in {stream(Self, duration)} :
           /\ Store(r.d)
           /\ raised' = r.raised
           /\ io' = r.io
    /\ pc' = "idle"
    /\ last_op' = "stream"
    /\ last_arg' = duration
    /\ turn' = 0
    /\ json' = None

\* to_json_object handing its records over: the descriptors are left without
\* the records that were exported.
ToJsonObjectMovingRecords(options) ==
    /\ pc = "idle"
    /\ \E r \in {to_json_object(Self, options)} :
           /\ raised' = r.raised
           /\ json' = r.value
    /\ pc' = "idle"
    /\ last_op' = "to_json_object"
    /\ last_arg' = Some(options)
    /\ turn' = 0
    /\ io' = NoIO
    /\ signals' = [k \in 1..Len(signals) |-> [signals[k] EXCEPT !.samples = <<>>]]
    /\ UNCHANGED <<binary_content, edf_file, status, header, number_signals,
                   number_records, signal_header_size, samples_per_record,
                   record_size>>

\* EdfRecording.to_json_object(options), called by the user: it assigns to no
\* field of the decoder.
ToJsonObject(options) ==
    /\ pc = "idle"
    /\ \E r \in {to_json_object(Self, options)} :
           /\ raised' = r.raised
           /\ json' = r.value
    /\ pc' = "idle"
    /\ last_op' = "to_json_object"
    /\ last_arg' = Some(options)
    /\ turn' = 0
    /\ io' = NoIO
    /\ UNCHANGED <<binary_content, edf_file, status, header, number_signals,
                   number_records, signal_header_size, samples_per_record,
                   record_size, signals>>

\* signals[k].format_samples(scale, char_for_undefined), called by the user on
\* a descriptor of the decoder (k counts from 1): json holds the list returned,
\* None when the call raised.
FormatSamples(k, doScale, char_for_undefined) ==
    /\ pc = "idle"
    /\ k \in 1..Len(signals)
    /\ \E r \in {format_samples(signals[k], doScale, char_for_undefined)} :
           /\ raised' = r.raised
           /\ json' = IF r.raised = "" THEN Some(r.value) ELSE None
    /\ pc' = "idle"
    /\ last_op' = "format_samples"
    /\ last_arg' = Some([k |-> k, scale |-> doScale, marker |-> char_for_undefined])
    /\ turn' = 0
    /\ io' = NoIO
    /\ UNCHANGED <<binary_content, edf_file, status, header, number_signals,
                   number_records, signal_header_size, samples_per_record,
                   record_size, signals>>

\* EdfRecording.parse_binary(blob), up to its while loop.
ParseBinary(blob) ==
    /\ pc = "idle"
    /\ edf_file = None \/ blob \in MixedSources
    /\ Store([Self EXCEPT !.binary_content = Some(blob), !.status = STAGE_OPEN])
    /\ pc' = "parse_binary"
    /\ last_op' = "parse_binary"
    /\ last_arg' = None
    /\ turn' = 0
    /\ raised' = ""
    /\ io' = NoIO
    /\ json' = None

\* One turn of "while self.status != STAGE_DONE: self.stream(duration = 3600)";
\* an exception of stream leaves parse_binary.
ParseBinaryStream ==
    /\ pc = "parse_binary"
    /\ status # STAGE_DONE
    /\ \E r \in {stream(Self, Some(DEFAULT_DURATION_IN_SECONDS))} :
           /\ Store(r.d)
           /\ raised' = r.raised
           /\ io' = r.io
           /\ pc' = IF r.raised # "" THEN "idle" ELSE "parse_binary"
           /\ turn' = IF r.raised # "" THEN 0 ELSE 1 - turn
    /\ last_op' = "stream"
    /\ last_arg' = Some(DEFAULT_DURATION_IN_SECONDS)
    /\ json' = None

\* The loop's exit and "return self.status".
ParseBinaryReturn ==
    /\ pc = "parse_binary"
    /\ status = STAGE_DONE
    /\ pc' = "idle"
    /\ last_op' = "return"
    /\ last_arg' = None
    /\ turn' = 0
    /\ UNCHANGED <<binary_content, edf_file, status, header, number_signals,
                   number_records, signal_header_size, samples_per_record,
                   record_size, signals, raised, io, json>>

Next ==
    \/ \E f \in Files : Open(f)
    \/ \E blob \in Files : ParseBinary(blob)
    \/ \E duration \in Durations : Stream(duration)
    \/ \E options \in ExportOptions : ToJsonObject(options)
    \/ \E k \in 1..2, doScale \in BOOLEAN, marker \in Markers :
           FormatSamples(k, doScale, marker)
    \/ ParseBinaryStream
    \/ ParseBinaryReturn

Spec == Init /\ [][Next]_vars

\* The decoder driven by open and parse_binary alone. parse_binary runs in the
\* caller's thread, so its loop is not abandoned: every iteration that can be
\* taken is taken, and so is its return.
LiveNext ==
    \/ \E f \in MixedSources : Open(f)
    \/ \E blob \in Files : ParseBinary(blob)
    \/ ParseBinaryStream
    \/ ParseBinaryReturn

LiveSpec ==
    Init /\ [][LiveNext]_vars /\ WF_vars(ParseBinaryStream) /\ WF_vars(ParseBinaryReturn)

\* EdfHeader().parse(bytes), called on a header of its own: json holds the
\* header_dict it leaves.
HeaderParse(bytes) ==
    /\ pc = "idle"
    /\ \E r \in {EdfHeaderParse(EdfHeaderInit, bytes)} :
           /\ raised' = r.raised
           /\ json' = Some(r.header.header_dict)
    /\ pc' = "idle"
    /\ last_op' = "parse"
    /\ last_arg' = Some(bytes)
    /\ turn' = 0
    /\ io' = NoIO
    /\ UNCHANGED <<binary_content, edf_file, status, header, number_signals,
                   number_records, signal_header_size, samples_per_record,
                   record_size, signals>>

\* Scaler(pmax, pmin, dmax, dmin).scale(dvalue), as the scaler test calls it:
\* json holds the value returned.
Scale(pmax, pmin, dmax, dmin, dvalue) ==
    /\ pc = "idle"
    /\ \E sc \in {ScalerInit(pmax, pmin, dmax, dmin)} :
           IF sc.raised # ""
           THEN raised' = sc.raised /\ json' = None
           ELSE \E r \in {scale(Get(sc.scaler), PyIntValue(dvalue))} :
                    /\ raised' = r.raised
                    /\ json' = IF r.raised = "" THEN Some(r.value) ELSE None
    /\ pc' = "idle"
    /\ last_op' = "scale"
    /\ last_arg' = Some([pmax |-> pmax, pmin |-> pmin, dmax |-> dmax,
                         dmin |-> dmin, dvalue |-> dvalue])
    /\ turn' = 0
    /\ io' = NoIO
    /\ UNCHANGED <<binary_content, edf_file, status, header, number_signals,
                   number_records, signal_header_size, samples_per_record,
                   record_size, signals>>

\* A decoder reading a file without a duration, beside calls of
\* EdfHeader.parse made on a header of its own.
HeaderNext ==
    \/ \E f \in UnitFiles : Open(f)
    \/ Stream(None)
    \/ \E bytes \in HeaderSlices : HeaderParse(bytes)

HeaderSpec == Init /\ [][HeaderNext]_vars

\* The calls of the scaler test, over all the bounds and digital values.
ScalerNext ==
    \E pmax \in PhysicalMaxima, pmin \in PhysicalMinima,
       dmax \in DigitalMaxima, dmin \in DigitalMinima, dvalue \in DigitalValues :
        Scale(pmax, pmin, dmax, dmin, dvalue)

ScalerSpec == Init /\ [][ScalerNext]_vars

-----------------------------------------------------------------------------
(* Vocabulary of the properties *)

\* The place of a stage in PARSER_STREAM_STAGES, 0 before a source is attached.
Rank(s) == IF s = NO_STAGE THEN 0 ELSE IndexIn(PARSER_STREAM_STAGES, s)

\* The header was parsed: header_dict holds the ten fields.
HeaderRead == header # None /\ DOMAIN Get(header).header_dict # {}
RecordDuration == Get(header).header_dict["recordDuration"]

\* The bytes the next __extract__ reads from, and all unread bytes in the
\* order they will be read.
CurrentSource ==
    IF Truthy(binary_content) THEN Get(binary_content)
    ELSE IF edf_file # None THEN Get(edf_file) ELSE <<>>
Upcoming ==
    (IF Truthy(binary_content) THEN Get(binary_content) ELSE <<>>)
        \o (IF edf_file # None THEN Get(edf_file) ELSE <<>>)
SourceExhausted == Upcoming = <<>>

\* The step is a stream call made in the record stages.
RecordCall == last_op' = "stream" /\ status \in {STAGE_METADATA, STAGE_PARSING}

\* Every record a descriptor held before the step is still there, unchanged.
RecordsKept ==
    /\ Len(signals') = Len(signals)
    /\ \A k \in 1..Len(signals) :
           /\ Len(signals'[k].samples) >= Len(signals[k].samples)
           /\ SubSeq(signals'[k].samples, 1, Len(signals[k].samples)) = signals[k].samples

\* floor(a / b) for b # 0.
FloorDiv(a, b) == IF b > 0 THEN a \div b ELSE (-a) \div (-b)

-----------------------------------------------------------------------------
(* C1..C10 *)

\* C1: a stream call in Open leaves the decoder in HeaderParsed, one in
\* HeaderParsed leaves it in MetadataParsed, one in MetadataParsed or Parsing
\* leaves it in Parsing or Done, and a call in which a record read returned no
\* byte leaves is_done() true.
C1_StreamProgression ==
    [][last_op' = "stream" =>
          /\ status = STAGE_OPEN => status' = STAGE_HEADER
          /\ status = STAGE_HEADER => status' = STAGE_METADATA
          /\ status \in {STAGE_METADATA, STAGE_PARSING}
                 => status' \in {STAGE_PARSING, STAGE_DONE}
          /\ io'.first_empty > 0 => is_done(Self')]_vars

\* A stream call decoded records, then read nothing and ended in Done.
C1_Witness ==
    /\ last_op = "stream"
    /\ io.parsed > 0
    /\ io.first_empty = io.parsed + 1
    /\ is_done(Self)

\* C2 as stated: no step of any operation moves the stage to an earlier one.
C2_NoOperationMovesBack == [][Rank(status') >= Rank(status)]_vars

\* C2 amended: stream (called by the user or by parse_binary's loop) and
\* to_json_object never move the stage to an earlier one, while open and
\* parse_binary set it to Open whatever it was.
C2_OnlyAttachMovesBack ==
    [][/\ last_op' \in {"open", "parse_binary"} => status' = STAGE_OPEN
       /\ last_op' \notin {"open", "parse_binary"} => Rank(status') >= Rank(status)]_vars

\* A decoder that holds decoded records was given a new source: it is in Open.
C2_Witness ==
    /\ last_op \in {"open", "parse_binary"}
    /\ status = STAGE_OPEN
    /\ \E k \in 1..Len(signals) : signals[k].samples # <<>>

\* C3: parse_binary on a source whose header and signal-metadata block were
\* decoded without error, and whose recordDuration is a positive number, ends:
\* its loop reaches Done and it returns.
C3_ParseBinaryTerminates ==
    (/\ pc = "parse_binary"
     /\ status = STAGE_METADATA
     /\ raised = ""
     /\ HeaderRead
     /\ RecordDuration > 0) ~> (pc = "idle")

\* C4: once the header was read, no stream call ends with an exception, and
\* the records decoded before are kept.
C4_OnlyHeaderSizeAborts ==
    [][(last_op' = "stream" /\ status \notin {NO_STAGE, STAGE_OPEN} /\ HeaderRead)
           => raised' = "" /\ RecordsKept]_vars

\* C5: in a stream call of the record stages in which a read returned no byte,
\* the stage becomes Done, that read is the call's last one, only the reads
\* before it gave records, and the records held before are kept.
C5_LoopStopsAtExhaustion ==
    [][(RecordCall /\ io'.first_empty > 0) =>
          /\ status' = STAGE_DONE
          /\ io'.extracts = io'.first_empty
          /\ io'.parsed = io'.first_empty - 1
          /\ RecordsKept]_vars

\* C6: a stream call in Done changes no field of the decoder, reads nothing
\* and raises nothing; and no stream call changes a descriptor once no unread
\* byte is left.
C6_StreamAtDoneIsNoOp ==
    [][/\ (last_op' = "stream" /\ status = STAGE_DONE)
            => Self' = Self /\ io' = NoIO /\ raised' = ""
       /\ (last_op' = "stream" /\ SourceExhausted) => signals' = signals]_vars

\* A stream call was made in Done on a decoder that holds records.
C6_Witness ==
    /\ last_op = "stream"
    /\ status = STAGE_DONE
    /\ io = NoIO
    /\ \E k \in 1..Len(signals) : signals[k].samples # <<>>

\* C7: with recordDuration zero, a stream call of the record stages made while
\* the source holds a whole record block reads once and appends exactly one
\* record to every descriptor, whatever the duration argument.
C7_ZeroDurationOneRecord ==
    [][(/\ RecordCall
        /\ HeaderRead
        /\ RecordDuration = 0
        /\ Get(record_size) > 0
        /\ Len(CurrentSource) >= Get(record_size))
           => /\ raised' = ""
              /\ io'.extracts = 1
              /\ io'.parsed = 1
              /\ Len(signals') = Len(signals)
              /\ \A k \in 1..Len(signals) :
                     Len(signals'[k].samples) = Len(signals[k].samples) + 1]_vars

\* A call with the longest duration took one record and left a whole one unread.
C7_Witness ==
    /\ last_op = "stream"
    /\ last_arg = Some(MaxDuration)
    /\ HeaderRead
    /\ RecordDuration = 0
    /\ io.parsed = 1
    /\ status = STAGE_PARSING
    /\ Get(record_size) > 0
    /\ Len(CurrentSource) >= Get(record_size)

\* C8: with recordDuration r # 0 and a duration d, a stream call of the record
\* stages that does not abort decodes floor(d / r) records (none when that is
\* negative) if the source holds that many, never more, and fewer only with
\* the stage Done.
C8_FloorOfDurationRatio ==
    [][(/\ RecordCall
        /\ raised' = ""
        /\ last_arg' # None
        /\ HeaderRead
        /\ RecordDuration # 0) =>
          LET want == Max(0, FloorDiv(1000 * Get(last_arg'), RecordDuration))
              held == IF Get(record_size) > 0
                      THEN Len(CurrentSource) \div Get(record_size) ELSE 0
          IN  /\ io'.parsed <= want
              /\ held >= want => io'.parsed = want
              /\ io'.parsed < want => status' = STAGE_DONE]_vars

\* The per-record sample counts c0, c1, ... of the descriptors.
Counts == [k \in 1..Len(signals) |-> Get(number_samples_per_record(signals[k]))]
\* The m-th integer (from 1) of the j-th record block (from 1) still unread.
BlockInt(j, m) ==
    LET at == (j - 1) * Get(record_size) + 2 * (m - 1)
    IN  Int16(Upcoming[at + 1], Upcoming[at + 2])

\* C9: every record block decoded by a stream call gives descriptor i exactly
\* ci integers, those at places c0+...+c(i-1)+1 .. c0+...+ci of the block, in
\* order, and the block holds c0+c1+... integers in all.
C9_RecordDistribution ==
    [][(RecordCall /\ io'.parsed >= 1) =>
          /\ 2 * Sum(Counts) = Get(record_size)
          /\ Len(signals') = Len(signals)
          /\ \A i \in 1..Len(signals) : \A j \in 1..io'.parsed :
                 LET rec == signals'[i].samples[Len(signals[i].samples) + j]
                 IN  /\ Len(rec) = Counts[i]
                     /\ \A m \in 1..Counts[i] :
                            rec[m] = BlockInt(j, PrefixSum(Counts, i - 1) + m)]_vars

\* A stream call decoded a record for two descriptors of different counts.
C9_Witness ==
    /\ last_op = "stream"
    /\ raised = ""
    /\ io.parsed >= 1
    /\ Len(signals) = 2
    /\ Counts[1] # Counts[2]
    /\ signals[2].samples # <<>>

\* C10: after the metadata stage with N signals, descriptor i's value of
\* field f is the chunk of width(f) bytes at offset
\* N * (sum of the widths before f) + i * width(f) of the block.
C10_ColumnMajorMetadata ==
    [][(/\ last_op' = "stream"
        /\ status = STAGE_HEADER
        /\ raised' = ""
        /\ number_signals # None
        /\ Get(number_signals) >= 1) =>
          LET N == Get(number_signals)
              block == SubSeq(CurrentSource, 1, Sum(SIGNAL_HEADER_FIELDS_SIZE) * N)
          IN  /\ Len(signals') = N
              /\ \A i \in 1..N : \A f \in 1..Len(SIGNAL_HEADER_FIELDS) :
                     LET w == SIGNAL_HEADER_FIELDS_SIZE[f]
                         at == N * PrefixSum(SIGNAL_HEADER_FIELDS_SIZE, f - 1)
                                   + (i - 1) * w
                     IN  /\ SIGNAL_HEADER_FIELDS[f] \in DOMAIN signals'[i].metadata
                         /\ signals'[i].metadata[SIGNAL_HEADER_FIELDS[f]]
                                = SubSeq(block, at + 1, at + w)]_vars

\* The metadata stage of a two-channel source succeeded.
C10_Witness ==
    /\ last_op = "stream"
    /\ status = STAGE_METADATA
    /\ raised = ""
    /\ Len(signals) = 2
    /\ \A k \in 1..2 : DOMAIN signals[k].metadata = Names(SIGNAL_HEADER_FIELDS)
    /\ signals[1].metadata["Label"] # signals[2].metadata["Label"]

\* C11: EdfHeader.parse raises its size error exactly when the slice is not
\* 256 bytes long; a stream call in Open raises it exactly when the source
\* holds fewer than 256 bytes, and otherwise leaves the ten header fields.
C11_HeaderSizeError ==
    [][/\ last_op' = "parse" =>
            /\ raised' = "Exception" <=> Len(Get(last_arg')) # HEADER_SIZE
            /\ raised' \in {"", "Exception"}
       /\ (last_op' = "stream" /\ status = STAGE_OPEN) =>
            /\ raised' = "Exception" <=> Len(CurrentSource) < HEADER_SIZE
            /\ raised' \in {"", "Exception"}
            /\ raised' = "" => HeaderRead']_vars

\* A stream call in Open on a source of fewer than 256 bytes raised the error
\* and left no header field.
C11_Witness ==
    /\ last_op = "stream"
    /\ status = STAGE_HEADER
    /\ raised = "Exception"
    /\ io.bytes > 0
    /\ io.bytes < HEADER_SIZE
    /\ ~HeaderRead

\* The step is a format_samples call; its arguments and its descriptor.
FormatCall == last_op' = "format_samples"
FormatArg == Get(last_arg')
FormatSignal == signals[FormatArg.k]

\* C12: format_samples called with a marker does not fail, and every raw sample
\* equal to -32768 is the marker itself in the list it returns, whatever the
\* descriptor and the scale argument.
C12_MarkerNeverConverted ==
    [][(FormatCall /\ Truthy(FormatArg.marker)) =>
          /\ raised' = ""
          /\ \A r \in 1..Len(FormatSignal.samples) :
                 \A j \in 1..Len(FormatSignal.samples[r]) :
                     FormatSignal.samples[r][j] = UNDEFINED
                         => Get(json')[r][j] = PyStrValue(Get(FormatArg.marker))]_vars

\* C13: for a descriptor whose Transducer Type and Physical dimension are
\* blank, format_samples called without a marker returns, whatever the scale
\* argument, the hexadecimal 16-bit two's-complement string of every stored
\* sample.
C13_AnnotationAlwaysHex ==
    [][(/\ FormatCall
        /\ FormatArg.marker = None
        /\ is_numerical(FormatSignal) = Some(FALSE)) =>
          /\ raised' = ""
          /\ json' = Some([r \in 1..Len(FormatSignal.samples) |->
                             [j \in 1..Len(FormatSignal.samples[r]) |->
                                 PyStrValue(numerical_to_hex_string(
                                     FormatSignal.samples[r][j], 16))]])]_vars

\* The step is a Scaler(...).scale(dvalue) call; its arguments, and the four
\* bounds as float() reads them (None for a string that is no number).
ScaleCall == last_op' = "scale"
ScaleArg == Get(last_arg')
BoundValues ==
    [pmax |-> ParseFloat(ScaleArg.pmax), pmin |-> ParseFloat(ScaleArg.pmin),
     dmax |-> ParseFloat(ScaleArg.dmax), dmin |-> ParseFloat(ScaleArg.dmin)]
BoundsAreNumbers == \A n \in DOMAIN BoundValues : BoundValues[n] # None

\* C14: a Scaler built with digitalMax equal to digitalMin returns its argument
\* unchanged and raises nothing.
C14_ScalerIdentity ==
    [][(ScaleCall /\ BoundsAreNumbers /\ BoundValues.dmax = BoundValues.dmin) =>
          /\ raised' = ""
          /\ json' = Some(PyIntValue(ScaleArg.dvalue))]_vars

\* The second call of the scaler test: bounds "32767   " and "32767  ", 550
\* comes back as the integer 550.
C14_Witness ==
    /\ last_op = "scale"
    /\ Get(last_arg).dmax # Get(last_arg).dmin
    /\ ParseFloat(Get(last_arg).dmax) = ParseFloat(Get(last_arg).dmin)
    /\ ParseFloat(Get(last_arg).pmax) # ParseFloat(Get(last_arg).pmin)
    /\ Get(last_arg).dvalue = 550
    /\ raised = ""
    /\ json = Some(PyIntValue(550))

\* C15: with digitalMax different from digitalMin, scale(digitalMin) is
\* physicalMin and scale(digitalMax) is physicalMax, to the thousandth; and
\* with physicalMax equal to physicalMin every value is scaled to physicalMin.
C15_ScalerMapsBounds ==
    [][(ScaleCall /\ BoundsAreNumbers /\ BoundValues.dmax # BoundValues.dmin) =>
          /\ raised' = ""
          /\ 1000 * ScaleArg.dvalue = Get(BoundValues.dmin)
                 => json' = Some(PyFloatValue(Get(BoundValues.pmin)))
          /\ 1000 * ScaleArg.dvalue = Get(BoundValues.dmax)
                 => json' = Some(PyFloatValue(Get(BoundValues.pmax)))
          /\ BoundValues.pmax = BoundValues.pmin
                 => json' = Some(PyFloatValue(Get(BoundValues.pmin)))]_vars

\* The upper digital bound 32767 was scaled to the upper physical bound 100.0,
\* the lower physical bound being -100.0.
C15_Witness ==
    /\ last_op = "scale"
    /\ raised = ""
    /\ Get(last_arg).dvalue = 32767
    /\ ParseFloat(Get(last_arg).dmax) = Some(32767000)
    /\ ParseFloat(Get(last_arg).dmin) = Some(-32768000)
    /\ ParseFloat(Get(last_arg).pmin) = Some(-100000)
    /\ json = Some(PyFloatValue(100000))

\* C18: building a Scaler never fails, and when a bound is no number scale
\* returns its argument unchanged and raises nothing.
C18_ScalerAlwaysBuilt ==
    [][ScaleCall =>
          /\ raised' = ""
          /\ ~BoundsAreNumbers => json' = Some(PyIntValue(ScaleArg.dvalue))]_vars

\* The step is a to_json_object call; its options, and the descriptors the
\* options select (counted from 1).
ExportCall == last_op' = "to_json_object"
ExportArg == Get(last_arg')
Selected ==
    IF ExportArg.slicing_by_index = None \/ ExportArg.signal = None THEN {}
    ELSE {i \in 1..Len(signals) :
             \/ Get(ExportArg.slicing_by_index).all
             \/ (i - 1) \in Get(ExportArg.slicing_by_index).indices}

\* C16: a to_json_object call changes no field of the decoder (stage, unread
\* bytes, header, geometry, descriptors), and a second call with the same
\* options on the state it leaves returns what the first returned.
C16_ProjectionReadOnly ==
    [][ExportCall =>
          /\ Self' = Self
          /\ Upcoming' = Upcoming
          /\ \E again \in {to_json_object(Self', ExportArg)} :
                 /\ again.raised = raised'
                 /\ again.value = json']_vars

\* A call made while records are still unread returned the values of a
\* descriptor that holds records.
C16_Witness ==
    /\ last_op = "to_json_object"
    /\ raised = ""
    /\ status = STAGE_PARSING
    /\ ~SourceExhausted
    /\ json # None
    /\ Get(json).signals # None
    /\ \E i \in DOMAIN Get(Get(json).signals) :
           /\ Get(Get(json).signals)[i].values # None
           /\ Get(Get(Get(json).signals)[i].values) # <<>>

\* C17: at every stage a to_json_object call raises nothing, and the values it
\* returns for a selected descriptor are the descriptor's records, one list per
\* record in order, each with the record's samples formatted.
C17_ProjectionAtEveryStage ==
    [][(ExportCall /\ status \in Names(PARSER_STREAM_STAGES)) =>
          /\ raised' = ""
          /\ \A i \in Selected :
                 "values" \in Get(ExportArg.signal) =>
                     LET values == Get(Get(Get(json').signals)[i].values)
                     IN  /\ Len(values) = Len(signals[i].samples)
                         /\ \A r \in 1..Len(values) :
                                /\ Len(values[r]) = Len(signals[i].samples[r])
                                /\ values[r] = FormatRecord(signals[i], signals[i].samples[r],
                                                            TRUE, None).value]_vars

\* The number of samples a descriptor holds, over all its records.
StoredSamples(s) == Sum([r \in 1..Len(s.samples) |-> Len(s.samples[r])])

\* C19: in every state reached, all descriptors hold the same number of
\* records, every record of a descriptor has its declared number of samples,
\* and total_number_of_samples reports the number of samples stored; and a
\* stream call of the record stages adds to every descriptor one record per
\* block it decoded.
C19_StoredSamplesMatchGeometry ==
    [][/\ \A k \in 1..Len(signals') :
              /\ Len(signals'[k].samples) = Len(signals'[1].samples)
              /\ number_samples_per_record(signals'[k]) # None
              /\ \A r \in 1..Len(signals'[k].samples) :
                     Len(signals'[k].samples[r])
                         = Get(number_samples_per_record(signals'[k]))
              /\ total_number_of_samples(signals'[k])
                     = Some(StoredSamples(signals'[k]))
       /\ RecordCall =>
              /\ Len(signals') = Len(signals)
              /\ \A k \in 1..Len(signals) :
                     Len(signals'[k].samples) = Len(signals[k].samples) + io'.parsed]_vars

\* C20: a stream call takes the bytes it reads from the front of the unread
\* bytes and leaves the rest unread: 256 in Open and 256 times number_signals
\* in HeaderParsed (fewer when the source holds fewer), at most record_size per
\* read in the record stages (and all of it for a decoded record), none in
\* Done; and every __extract__ call returns, whether bytes remain or not.
C20_SequentialConsumption ==
    [][(last_op' = "stream") =>
          /\ io'.bytes <= Len(Upcoming)
          /\ Upcoming' = SubSeq(Upcoming, io'.bytes + 1, Len(Upcoming))
          /\ status = STAGE_OPEN =>
                 /\ io'.extracts = 1
                 /\ io'.bytes = Min(HEADER_SIZE, Len(CurrentSource))
          /\ (status = STAGE_HEADER /\ number_signals # None) =>
                 /\ io'.extracts = 1
                 /\ io'.bytes = Min(Max(0, Sum(SIGNAL_HEADER_FIELDS_SIZE) * Get(number_signals)),
                                    Len(CurrentSource))
          /\ (status \in {STAGE_METADATA, STAGE_PARSING} /\ record_size # None) =>
                 /\ io'.bytes <= io'.extracts * Get(record_size)
                 /\ io'.bytes >= io'.parsed * Get(record_size)
          /\ status = STAGE_DONE => io'.bytes = 0
          /\ ~io'.failed]_vars

\* C21: a decoder has one byte source. No operation leaves it with both an
\* in-memory buffer and a file handle, and a stream call of a decoder that was
\* given a buffer reads nothing from a file handle.
C21_OneByteSource ==
    [][/\ ~(binary_content' # None /\ edf_file' # None)
       /\ (last_op' = "stream" /\ binary_content # None) => edf_file' = edf_file]_vars

\* The decoder holds one byte source, and the same decoder with its unread
\* bytes held by the other kind of source (a buffer for a file handle, a file
\* handle for a buffer).
OneSource == (binary_content = None) # (edf_file = None)
OtherSource(d) == [d EXCEPT !.binary_content = d.edf_file, !.edf_file = d.binary_content]

\* What a decode has produced (stage, header, geometry, descriptors), and the
\* bytes it has not read yet.
Decoded(d) ==
    <<d.status, d.header, d.number_signals, d.number_records, d.signal_header_size,
      d.samples_per_record, d.record_size, d.signals>>
Unread(d) == IF d.binary_content # None THEN Get(d.binary_content) ELSE Get(d.edf_file)

HeaderStageReached == Rank(status) >= Rank(STAGE_HEADER)
MetadataStageReached == Rank(status) >= Rank(STAGE_METADATA)

\* What the stage stands for: in HeaderParsed or later the header was parsed
\* and there is one descriptor per declared signal; in MetadataParsed or later
\* every descriptor holds the ten metadata fields and record_size is twice the
\* sum of the descriptors' samples per record.
StageTellsTheTruth ==
    /\ HeaderStageReached =>
           /\ HeaderRead
           /\ number_signals # None
           /\ Len(signals) = Max(Get(number_signals), 0)
    /\ MetadataStageReached =>
           /\ \A k \in 1..Len(signals) :
                  /\ DOMAIN signals[k].metadata = Names(SIGNAL_HEADER_FIELDS)
                  /\ number_samples_per_record(signals[k]) # None
           /\ record_size = Some(2 * Sum(Counts))

\* C23: a stream call that ends with an exception leaves the stage as it was,
\* and in every state the stage tells what has been decoded.
C23_StageMatchesDecoded ==
    [][/\ (last_op' = "stream" /\ raised' # "") => status' = status
       /\ StageTellsTheTruth']_vars

====
